---- MODULE Spec2Model ----
(***************************************************************************)
(* Model of pkg/cluster/internal/create/nodes.go: the expansion of a       *)
(* cluster configuration into node specs (convertReplicas, sortNodes,      *)
(* makeNodeNamer, nodesToCreate) and the concurrent creation of the node   *)
(* containers (createNodeContainers, nodeSpec.Create, fixupNode).          *)
(***************************************************************************)
EXTENDS Integers, Sequences, FiniteSets, TLC

(***************************************************************************)
(* Bounds of the model.                                                    *)
(***************************************************************************)
MaxEntries == 2      \* entries of cfg.Nodes
MaxReplicas == 2     \* largest replica count of an entry
MaxNodes == 2        \* largest number of node specs of a run

(***************************************************************************)
(* Values.                                                                 *)
(***************************************************************************)
\* a Go pointer, slice or error that may be nil: << >> is nil, << v >> holds v
Nil == << >>
Some(v) == << v >>

ExternalLoadBalancerNodeRoleValue == "external-load-balancer"
ExternalEtcdNodeRoleValue == "external-etcd"
ControlPlaneNodeRoleValue == "control-plane"
WorkerNodeRoleValue == "worker"

\* a role string no constant of the program names
EdgeRole == "edge"

defaultRoleOrder ==
    << ExternalLoadBalancerNodeRoleValue,
       ExternalEtcdNodeRoleValue,
       ControlPlaneNodeRoleValue,
       WorkerNodeRoleValue >>

Range(s) == { s[i] : i \in DOMAIN s }

RoleValues == Range(defaultRoleOrder) \cup { EdgeRole }

clusterName == "kind"

(***************************************************************************)
(* makeRoleToOrder: the index (from 0) of the role in roleOrder, the last  *)
(* one when it occurs twice, and 10000 for a role that is not in it.       *)
(***************************************************************************)
UnknownRoleOrder == 10000

makeRoleToOrder(roleOrder, role) ==
    IF \E i \in DOMAIN roleOrder : roleOrder[i] = role
    THEN (CHOOSE i \in DOMAIN roleOrder :
            /\ roleOrder[i] = role
            /\ \A j \in DOMAIN roleOrder : roleOrder[j] = role => j <= i) - 1
    ELSE UnknownRoleOrder

(***************************************************************************)
(* sortNodes: sort.SliceStable by role order.  InsertStable puts n after   *)
(* every entry whose order is not greater than its own.                    *)
(***************************************************************************)
RECURSIVE InsertStable(_, _, _)
InsertBeforeEqual(sorted, n, roleOrder) ==
    IF sorted = << >> THEN << n >>
    ELSE IF makeRoleToOrder(roleOrder, n.Role)
              <= makeRoleToOrder(roleOrder, sorted[Len(sorted)].Role)
         THEN Append(InsertStable(SubSeq(sorted, 1, Len(sorted) - 1), n, roleOrder),
                     sorted[Len(sorted)])
         ELSE Append(sorted, n)

InsertStable(sorted, n, roleOrder) ==
    IF sorted = << >> THEN << n >>
    ELSE IF makeRoleToOrder(roleOrder, n.Role)
              < makeRoleToOrder(roleOrder, sorted[Len(sorted)].Role)
         THEN Append(InsertStable(SubSeq(sorted, 1, Len(sorted) - 1), n, roleOrder),
                     sorted[Len(sorted)])
         ELSE Append(sorted, n)

RECURSIVE sortNodes(_, _)
sortNodes(nodes, roleOrder) ==
    IF nodes = << >> THEN << >>
    ELSE InsertStable(sortNodes(SubSeq(nodes, 1, Len(nodes) - 1), roleOrder),
                      nodes[Len(nodes)], roleOrder)

(***************************************************************************)
(* The extra-mount list of a config.Node is a Go slice: at is the address   *)
(* of its backing array, mounts what it holds; a nil slice is Nil.  Two     *)
(* nodes share their mounts when their lists are at the same address.      *)
(* CfgMounts(i) is the list of entry i of cfg.Nodes, NewAddress(out) the   *)
(* address of an array allocated when out is what has been built so far.   *)
(***************************************************************************)
CfgMounts(i) == [ at |-> << "cfg", i >>, mounts |-> << "/mnt/" \o ToString(i) >> ]
NewAddress(out) == << "copy", Len(out) + 1 >>

\* config.Node.DeepCopy: the same fields, the mounts copied into an array of their own
DeepCopy(node, fresh) ==
    [node EXCEPT !.ExtraMounts =
        IF @ = Nil THEN Nil ELSE Some([ at |-> fresh, mounts |-> @[1].mounts ])]

(***************************************************************************)
(* convertReplicas: replicas copies of each entry (one when Replicas is    *)
(* nil, none when the count is not positive), Replicas cleared.  Copies is *)
(* the inner loop: out with the copies of node appended.                   *)
(***************************************************************************)
RECURSIVE Copies(_, _, _)
CopiesInclusive(out, node, replicas) ==
    IF replicas < 0 THEN out
    ELSE LET before == Copies(out, node, replicas - 1)
             outNode == DeepCopy(node, NewAddress(before))
         IN  Append(before, [outNode EXCEPT !.Replicas = Nil])

Copies(out, node, replicas) ==
    IF replicas <= 0 THEN out
    ELSE LET before == Copies(out, node, replicas - 1)
             outNode == DeepCopy(node, NewAddress(before))
         IN  Append(before, [outNode EXCEPT !.Replicas = Nil])

\* the replica count the loop of convertReplicas runs to
ReplicasOf(node) == IF node.Replicas # Nil THEN node.Replicas[1] ELSE 1

RECURSIVE convertReplicas(_)
convertReplicas(nodes) ==
    IF nodes = << >> THEN << >>
    ELSE LET node == nodes[Len(nodes)]
         IN  Copies(convertReplicas(SubSeq(nodes, 1, Len(nodes) - 1)), node, ReplicasOf(node))

(***************************************************************************)
(* makeNodeNamer: the closure's state is counter, a map from role to the   *)
(* count of the last name given for it.  nameNode is one call: the name    *)
(* it returns and the counter it leaves.                                   *)
(***************************************************************************)
makeNodeNamer == << >>

nameNodeOldCount(cluster, counter, role) ==
    LET seen == role \in DOMAIN counter
        count == IF seen THEN 1 + counter[role] ELSE 1
        suffix == IF seen THEN ToString(counter[role]) ELSE ""
    IN  [ name |-> cluster \o "-" \o role \o suffix,
          counter |-> [ r \in DOMAIN counter \cup { role } |->
                            IF r = role THEN count ELSE counter[r] ] ]

\* one count for all roles
nameNodeOneCount(cluster, counter, role) ==
    LET seen == counter # << >>
        count == IF seen THEN 1 + counter[CHOOSE r \in DOMAIN counter : TRUE] ELSE 1
        suffix == IF seen THEN ToString(count) ELSE ""
    IN  [ name |-> cluster \o "-" \o role \o suffix,
          counter |-> [ r \in DOMAIN counter \cup { role } |-> count ] ]

nameNode(cluster, counter, role) ==
    LET seen == role \in DOMAIN counter
        count == IF seen THEN 1 + counter[role] ELSE 1
        suffix == IF seen THEN ToString(count) ELSE ""
    IN  [ name |-> cluster \o "-" \o role \o suffix,
          counter |-> [ r \in DOMAIN counter \cup { role } |->
                            IF r = role THEN count ELSE counter[r] ] ]

(***************************************************************************)
(* nodesToCreate: expand, sort, then name the entries in sorted order.     *)
(* NameAll is the loop over configNodes: the specs built and the namer's   *)
(* counter after the last of them.                                         *)
(***************************************************************************)
\* the nodeSpec appended for configNode (the image is left out of the model)
NodeSpec(name, configNode) ==
    [ Name |-> name, Role |-> configNode.Role, ExtraMounts |-> configNode.ExtraMounts ]

RECURSIVE NameAll(_, _)
NameAll(configNodes, cluster) ==
    IF configNodes = << >> THEN [ specs |-> << >>, counter |-> makeNodeNamer ]
    ELSE LET before == NameAll(SubSeq(configNodes, 1, Len(configNodes) - 1), cluster)
             configNode == configNodes[Len(configNodes)]
             named == nameNode(cluster, before.counter, configNode.Role)
         IN  [ specs |-> Append(before.specs, NodeSpec(named.name, configNode)),
               counter |-> named.counter ]

nodesToCreate(cfgNodes, cluster) ==
    NameAll(sortNodes(convertReplicas(cfgNodes), defaultRoleOrder), cluster).specs

(***************************************************************************)
(* The configurations a run is started on.                                 *)
(***************************************************************************)
\* entries of the recognised and of one unrecognised role, with no extra mounts
ConfigNode ==
    [ Role : RoleValues,
      Replicas : { Nil } \cup { Some(r) : r \in 0..MaxReplicas },
      ExtraMounts : { Nil } ]

Configs == UNION { [ 1..k -> ConfigNode ] : k \in 0..MaxEntries }

(***************************************************************************)
(* The external creation operations.                                       *)
(***************************************************************************)
CreateExternalLoadBalancerNode == "CreateExternalLoadBalancerNode"
CreateControlPlaneNode == "CreateControlPlaneNode"
CreateWorkerNode == "CreateWorkerNode"
CreateOps == { CreateExternalLoadBalancerNode, CreateControlPlaneNode, CreateWorkerNode }

VARIABLES
    desiredNodes,    \* the node specs of the run
    needProxy,       \* nodes.NeedProxy()
    opc,             \* where createNodeContainers is
    launched,        \* number of goroutines started by the loop
    pc,              \* per task: where the goroutine is
    steps,           \* per task: the external operations invoked, with their results
    node,            \* per task: the goroutine's node
    err,             \* per task: the goroutine's err
    nodeChan,        \* buffer of nodeChan
    nodeChanClosed,
    errChanClosed,
    allNodes,
    ret              \* the values of the return statement

vars == << desiredNodes, needProxy, opc, launched, pc, steps, node, err,
           nodeChan, nodeChanClosed, errChanClosed, allNodes, ret >>

\* nodesToCreate, followed step by step: its locals
VARIABLES
    cfgNodes,        \* cfg.Nodes
    roleOrder,       \* the role order sortNodes is called with
    npc,             \* where nodesToCreate is
    expanded,        \* what convertReplicas returned
    configNodes,     \* the local configNodes, sorted in place
    counter,         \* the counter of the namer
    specs            \* the local desiredNodes

nvars == << cfgNodes, roleOrder, npc, expanded, configNodes, counter, specs >>

allvars == << vars, nvars >>

N == Len(desiredNodes)
Tasks == 1..N

\* an unrecovered panic of a goroutine ends the process
crashed == \E t \in Tasks : pc[t] = "panic"

(***************************************************************************)
(* Errors.  msg is the format, arg what it is formatted with; origin is    *)
(* the task in which the error value was made.                             *)
(***************************************************************************)
UnknownRoleMsg == "unknown node role: %s"
SetProxyMsg == "failed to set proxy for node %s"
TimeoutMsg == "timed out waiting for docker to be ready on node %s"

\* the error an external operation returned, passed on as it is
NoArg == ""
ExternalError(op, t) == [ msg |-> op, arg |-> NoArg, origin |-> t ]

(***************************************************************************)
(* nodeSpec.Create: the switch on d.Role.  CreateOp is the creation        *)
(* operation the role's case calls, Nil in the default case.               *)
(***************************************************************************)
\* the default case creates a worker
CreateOpDefaultWorker(role) ==
    CASE role = ExternalLoadBalancerNodeRoleValue -> Some(CreateExternalLoadBalancerNode)
      [] role = ControlPlaneNodeRoleValue -> Some(CreateControlPlaneNode)
      [] OTHER -> Some(CreateWorkerNode)

CreateOp(role) ==
    CASE role = ExternalLoadBalancerNodeRoleValue -> Some(CreateExternalLoadBalancerNode)
      [] role = ControlPlaneNodeRoleValue -> Some(CreateControlPlaneNode)
      [] role = WorkerNodeRoleValue -> Some(CreateWorkerNode)
      [] OTHER -> Nil

UnknownRoleError(d, t) == [ msg |-> UnknownRoleMsg, arg |-> d.Role, origin |-> t ]

\* the handle of the container made for spec d by task t
NewNode(d, t) == [ name |-> d.Name, spec |-> t ]

(***************************************************************************)
(* fixupNode: the error it returns when step op fails, and the step that   *)
(* follows op (FixupReturn: fixupNode returns).                            *)
(***************************************************************************)
FixupReturn == "return"

\* the error of SetProxy returned as it is, like the one of FixMounts
FixupErrorProxyUnwrapped(op, n, t) ==
    CASE op \in { "FixMounts", "SetProxy", "SignalStart" } -> Some(ExternalError(op, t))
      [] op = "WaitForDocker" -> Some([ msg |-> TimeoutMsg, arg |-> n.name, origin |-> t ])
      [] OTHER -> Nil

FixupError(op, n, t) ==
    CASE op = "FixMounts" -> Some(ExternalError(op, t))
      [] op = "SetProxy" -> Some([ msg |-> SetProxyMsg, arg |-> n.name, origin |-> t ])
      [] op = "SignalStart" -> Some(ExternalError(op, t))
      [] op = "WaitForDocker" -> Some([ msg |-> TimeoutMsg, arg |-> n.name, origin |-> t ])
      [] OTHER -> Nil

FixupFirst == "FixMounts"

\* the error of SignalStart is dropped
FixupNextSignalIgnored(op, ok, proxy) ==
    CASE op = "FixMounts" ->
            IF ~ok THEN FixupReturn ELSE IF proxy THEN "SetProxy" ELSE "SignalStart"
      [] op = "SetProxy" -> IF ~ok THEN FixupReturn ELSE "SignalStart"
      [] op = "SignalStart" -> "WaitForDocker"
      [] op = "WaitForDocker" -> IF ~ok THEN FixupReturn ELSE "LoadImages"
      [] OTHER -> FixupReturn

FixupNext(op, ok, proxy) ==
    CASE op = "FixMounts" ->
            IF ~ok THEN FixupReturn ELSE IF proxy THEN "SetProxy" ELSE "SignalStart"
      [] op = "SetProxy" -> IF ~ok THEN FixupReturn ELSE "SignalStart"
      [] op = "SignalStart" -> IF ~ok THEN FixupReturn ELSE "WaitForDocker"
      [] op = "WaitForDocker" -> IF ~ok THEN FixupReturn ELSE "LoadImages"
      [] OTHER -> FixupReturn

\* the error of LoadImages is returned
FixupResultLoadImagesChecked(op, ok, n, t) ==
    IF ok THEN Nil
    ELSE IF op = "LoadImages" THEN Some(ExternalError(op, t))
    ELSE FixupError(op, n, t)

\* the value fixupNode returns after op ended with ok
FixupResult(op, ok, n, t) == IF ok THEN Nil ELSE FixupError(op, n, t)

\* createNodeContainers has its desiredNodes and has started no goroutine
Start(nodes) ==
    /\ desiredNodes = nodes
    /\ needProxy \in BOOLEAN
    /\ opc = IF N = 0 THEN "collect" ELSE "launch"
    /\ launched = 0
    /\ pc = [ t \in Tasks |-> "idle" ]
    /\ steps = [ t \in Tasks |-> << >> ]
    /\ node = [ t \in Tasks |-> Nil ]
    /\ err = [ t \in Tasks |-> Nil ]
    /\ nodeChan = << >>
    /\ nodeChanClosed = FALSE
    /\ errChanClosed = FALSE
    /\ allNodes = << >>
    /\ ret = [ nodes |-> Nil, err |-> Nil ]

\* the steps of nodesToCreate are not followed in this run
NotFollowed ==
    /\ cfgNodes = << >>
    /\ roleOrder = << >>
    /\ npc = "returned"
    /\ expanded = << >>
    /\ configNodes = << >>
    /\ counter = makeNodeNamer
    /\ specs = << >>

Init ==
    /\ \E cfg \in Configs :
         /\ Len(nodesToCreate(cfg, clusterName)) <= MaxNodes
         /\ Start(nodesToCreate(cfg, clusterName))
    /\ NotFollowed

(***************************************************************************)
(* createNodeContainers: the loop that starts one goroutine per spec.      *)
(***************************************************************************)
Launch ==
    /\ ~crashed
    /\ opc = "launch"
    /\ launched < N
    /\ launched' = launched + 1
    /\ pc' = [pc EXCEPT ![launched + 1] = "Create"]
    /\ opc' = IF launched + 1 = N THEN "collect" ELSE "launch"
    /\ UNCHANGED << desiredNodes, needProxy, steps, node, err, nodeChan,
                    nodeChanClosed, errChanClosed, allNodes, ret >>
    /\ UNCHANGED nvars

(***************************************************************************)
(* The goroutine of task t.                                                *)
(***************************************************************************)
Create(t) ==
    /\ ~crashed
    /\ pc[t] = "Create"
    /\ LET d == desiredNodes[t]
           op == CreateOp(d.Role)
       IN  IF op = Nil
           THEN /\ err' = [err EXCEPT ![t] = Some(UnknownRoleError(d, t))]
                /\ pc' = [pc EXCEPT ![t] = "sendErr"]
                /\ UNCHANGED << steps, node >>
           ELSE \E ok \in BOOLEAN :
                    /\ steps' = [steps EXCEPT ![t] = Append(@, [ op |-> op[1], ok |-> ok ])]
                    /\ node' = [node EXCEPT ![t] = IF ok THEN Some(NewNode(d, t)) ELSE Nil]
                    /\ err' = [err EXCEPT ![t] =
                                 IF ok THEN Nil ELSE Some(ExternalError(op[1], t))]
                    /\ pc' = [pc EXCEPT ![t] = IF ok THEN FixupFirst ELSE "sendErr"]
    /\ UNCHANGED << desiredNodes, needProxy, opc, launched, nodeChan,
                    nodeChanClosed, errChanClosed, allNodes, ret >>
    /\ UNCHANGED nvars

\* one step of fixupNode(node): the external operation op ends with ok; when
\* fixupNode returns, err is what it returned
FixupStep(t, op) ==
    /\ ~crashed
    /\ pc[t] = op
    /\ \E ok \in BOOLEAN :
       LET next == FixupNext(op, ok, needProxy)
           res == FixupResult(op, ok, node[t][1], t)
       IN  /\ steps' = [steps EXCEPT ![t] = Append(@, [ op |-> op, ok |-> ok ])]
           /\ IF next = FixupReturn
              THEN /\ err' = [err EXCEPT ![t] = res]
                   /\ pc' = [pc EXCEPT ![t] = IF res # Nil THEN "sendErr" ELSE "sendNode"]
              ELSE /\ pc' = [pc EXCEPT ![t] = next]
                   /\ UNCHANGED err
    /\ UNCHANGED << desiredNodes, needProxy, opc, launched, node, nodeChan,
                    nodeChanClosed, errChanClosed, allNodes, ret >>
    /\ UNCHANGED nvars

FixMounts(t) == FixupStep(t, "FixMounts")
SetProxy(t) == FixupStep(t, "SetProxy")
SignalStart(t) == FixupStep(t, "SignalStart")
WaitForDocker(t) == FixupStep(t, "WaitForDocker")
LoadImages(t) == FixupStep(t, "LoadImages")

\* nodeChan <- node: into the buffer, or a panic when nodeChan is closed
SendNode(t) ==
    /\ ~crashed
    /\ pc[t] = "sendNode"
    /\ IF nodeChanClosed
       THEN /\ pc' = [pc EXCEPT ![t] = "panic"]
            /\ UNCHANGED nodeChan
       ELSE /\ Len(nodeChan) < N
            /\ nodeChan' = Append(nodeChan, node[t][1])
            /\ pc' = [pc EXCEPT ![t] = "done"]
    /\ UNCHANGED << desiredNodes, needProxy, opc, launched, steps, node, err,
                    nodeChanClosed, errChanClosed, allNodes, ret >>
    /\ UNCHANGED nvars

\* errChan <- err on the closed errChan: a panic
SendErrClosed(t) ==
    /\ ~crashed
    /\ pc[t] = "sendErr"
    /\ errChanClosed
    /\ pc' = [pc EXCEPT ![t] = "panic"]
    /\ UNCHANGED << desiredNodes, needProxy, opc, launched, steps, node, err,
                    nodeChan, nodeChanClosed, errChanClosed, allNodes, ret >>
    /\ UNCHANGED nvars

(***************************************************************************)
(* createNodeContainers: the select of the collecting loop, and the        *)
(* deferred closes that run after the return statement.                    *)
(***************************************************************************)
\* the loop ends one node early
CollectDoneEarly(all, desired) == Len(all) >= Len(desired) - 1

\* the loop ends one node late
CollectDoneLate(all, desired) == Len(all) = Len(desired) + 1

CollectDone(all, desired) == Len(all) = Len(desired)

\* the nodes are returned in the order of their specs
SuccessReturnInSpecOrder(all) ==
    [ nodes |-> Some([ i \in DOMAIN all |-> CHOOSE n \in Range(all) : n.spec = i ]),
      err |-> Nil ]

SuccessReturn(all) == [ nodes |-> Some(all), err |-> Nil ]

\* the nodes collected so far are returned with the error
ErrorReturnWithNodes(all, e) == [ nodes |-> Some(all), err |-> Some(e) ]

ErrorReturn(all, e) == [ nodes |-> Nil, err |-> Some(e) ]

\* case node := <-nodeChan
RecvNode ==
    /\ ~crashed
    /\ opc = "collect"
    /\ nodeChan # << >>
    /\ nodeChan' = Tail(nodeChan)
    /\ allNodes' = Append(allNodes, Head(nodeChan))
    /\ IF CollectDone(allNodes', desiredNodes)
       THEN /\ ret' = SuccessReturn(allNodes')
            /\ opc' = "closeErrChan"
       ELSE UNCHANGED << ret, opc >>
    /\ UNCHANGED << desiredNodes, needProxy, launched, pc, steps, node, err,
                    nodeChanClosed, errChanClosed >>
    /\ UNCHANGED nvars

\* case err := <-errChan, with the send of task t (errChan has no buffer)
RecvErr(t) ==
    /\ ~crashed
    /\ opc = "collect"
    /\ pc[t] = "sendErr"
    /\ ~errChanClosed
    /\ pc' = [pc EXCEPT ![t] = "done"]
    /\ ret' = ErrorReturn(allNodes, err[t][1])
    /\ opc' = "closeErrChan"
    /\ UNCHANGED << desiredNodes, needProxy, launched, steps, node, err,
                    nodeChan, nodeChanClosed, errChanClosed, allNodes >>
    /\ UNCHANGED nvars

\* defer close(errChan)
CloseErrChan ==
    /\ ~crashed
    /\ opc = "closeErrChan"
    /\ errChanClosed' = TRUE
    /\ opc' = "closeNodeChan"
    /\ UNCHANGED << desiredNodes, needProxy, launched, pc, steps, node, err,
                    nodeChan, nodeChanClosed, allNodes, ret >>
    /\ UNCHANGED nvars

\* defer close(nodeChan); createNodeContainers has returned
CloseNodeChan ==
    /\ ~crashed
    /\ opc = "closeNodeChan"
    /\ nodeChanClosed' = TRUE
    /\ opc' = "returned"
    /\ UNCHANGED << desiredNodes, needProxy, launched, pc, steps, node, err,
                    nodeChan, errChanClosed, allNodes, ret >>
    /\ UNCHANGED nvars

Orchestrator ==
    \/ Launch
    \/ RecvNode
    \/ \E t \in Tasks : RecvErr(t)
    \/ CloseErrChan
    \/ CloseNodeChan

Task(t) ==
    \/ Create(t)
    \/ FixMounts(t)
    \/ SetProxy(t)
    \/ SignalStart(t)
    \/ WaitForDocker(t)
    \/ LoadImages(t)
    \/ SendNode(t)
    \/ SendErrClosed(t)

Next ==
    \/ Orchestrator
    \/ \E t \in Tasks : Task(t)

Spec == Init /\ [][Next]_allvars

(***************************************************************************)
(* The Go scheduler runs every goroutine that can take a step, and a       *)
(* select with a ready case proceeds.                                      *)
(***************************************************************************)
FairSpec ==
    /\ Spec
    /\ WF_vars(Orchestrator)
    /\ \A t \in 1..MaxNodes : WF_vars(t \in Tasks /\ Task(t))

(***************************************************************************)
(* A run with one task more than MaxNodes: the configuration is a single   *)
(* worker entry with MaxNodes + 1 replicas.                                *)
(***************************************************************************)
WorkersConfig ==
    << [ Role |-> WorkerNodeRoleValue, Replicas |-> Some(MaxNodes + 1), ExtraMounts |-> Nil ] >>

WorkersInit ==
    /\ Start(nodesToCreate(WorkersConfig, clusterName))
    /\ NotFollowed

WorkersSpec == WorkersInit /\ [][Next]_allvars

(***************************************************************************)
(* nodesToCreate step by step, on configurations that convertReplicas,     *)
(* sortNodes and the namer are given no guarantee about: negative replica  *)
(* counts, a role string that is another role followed by a digit, and a   *)
(* role order other than defaultRoleOrder (sortNodes takes it as a         *)
(* parameter; nodesToCreate passes defaultRoleOrder).                      *)
(***************************************************************************)
Worker2Role == "worker2"

ExpansionRoles == { ControlPlaneNodeRoleValue, WorkerNodeRoleValue, Worker2Role }

\* entry i of cfg.Nodes has an extra-mount list of its own
ExpansionNodes(i, replicas) ==
    [ Role : ExpansionRoles, Replicas : replicas, ExtraMounts : { Some(CfgMounts(i)) } ]

ExpansionConfigsOf(replicas) ==
    UNION { { cfg \in [ 1..k -> UNION { ExpansionNodes(i, replicas) : i \in 1..k } ] :
                \A i \in 1..k : cfg[i] \in ExpansionNodes(i, replicas) } : k \in 0..MaxEntries }

ExpansionConfigs == ExpansionConfigsOf({ Nil } \cup { Some(r) : r \in (-1)..MaxReplicas })

\* configurations with no replica count set
PlainConfigs == ExpansionConfigsOf({ Nil })

RoleOrders ==
    { defaultRoleOrder, << >>, << Worker2Role, WorkerNodeRoleValue >> }

\* a role order with more roles than the order of an unknown role
LongRoleOrder ==
    [ i \in 1..(UnknownRoleOrder + 1) |->
        IF i = UnknownRoleOrder + 1 THEN WorkerNodeRoleValue ELSE "role" \o ToString(i) ]

ExpansionInit ==
    /\ \/ cfgNodes \in ExpansionConfigs /\ roleOrder \in RoleOrders
       \/ cfgNodes \in PlainConfigs /\ roleOrder = LongRoleOrder
    /\ npc = "convertReplicas"
    /\ expanded = << >>
    /\ configNodes = << >>
    /\ counter = makeNodeNamer
    /\ specs = << >>
    /\ Start(<< >>)
    /\ ~needProxy

\* configNodes := convertReplicas(cfg.Nodes)
ConvertReplicas ==
    /\ npc = "convertReplicas"
    /\ expanded' = convertReplicas(cfgNodes)
    /\ configNodes' = convertReplicas(cfgNodes)
    /\ npc' = "sortNodes"
    /\ UNCHANGED << cfgNodes, roleOrder, counter, specs >>
    /\ UNCHANGED vars

\* sortNodes(configNodes, roleOrder): configNodes is sorted in place
SortNodes ==
    /\ npc = "sortNodes"
    /\ configNodes' = sortNodes(configNodes, roleOrder)
    /\ npc' = "nameNode"
    /\ UNCHANGED << cfgNodes, roleOrder, expanded, counter, specs >>
    /\ UNCHANGED vars

\* one iteration of the loop over configNodes
NameNode ==
    /\ npc = "nameNode"
    /\ Len(specs) < Len(configNodes)
    /\ LET configNode == configNodes[Len(specs) + 1]
           named == nameNode(clusterName, counter, configNode.Role)
       IN  /\ specs' = Append(specs, NodeSpec(named.name, configNode))
           /\ counter' = named.counter
    /\ UNCHANGED << cfgNodes, roleOrder, npc, expanded, configNodes >>
    /\ UNCHANGED vars

\* return desiredNodes
ReturnSpecs ==
    /\ npc = "nameNode"
    /\ Len(specs) = Len(configNodes)
    /\ npc' = "returned"
    /\ UNCHANGED << cfgNodes, roleOrder, expanded, configNodes, counter, specs >>
    /\ UNCHANGED vars

ExpansionNext ==
    \/ ConvertReplicas
    \/ SortNodes
    \/ NameNode
    \/ ReturnSpecs

ExpansionSpec == ExpansionInit /\ [][ExpansionNext]_allvars

(***************************************************************************)
(* Vocabulary of the properties.                                           *)
(***************************************************************************)
\* the return statement of createNodeContainers has been executed
ReturnExecuted == opc \in { "closeErrChan", "closeNodeChan", "returned" }

\* createNodeContainers has returned to its caller
Returned == opc = "returned"

\* the creation or the fixup of task t's node has ended with an error
Failed(t) == err[t] # Nil

\* the creation and the fixup of task t's node have ended without an error
Succeeded(t) == err[t] = Nil /\ pc[t] \in { "sendNode", "done", "panic" }

\* task t has failed and no other task has
OnlyFailing(t) ==
    /\ t \in Tasks
    /\ Failed(t)
    /\ \A u \in Tasks \ { t } : ~Failed(u)

\* the role of task t's spec is none of the four roles of defaultRoleOrder
Unrecognized(t) == desiredNodes[t].Role \notin Range(defaultRoleOrder)

\* the fixup operations task t has invoked (what follows the creation)
FixupLog(t) == IF steps[t] = << >> THEN << >> ELSE Tail(steps[t])

ExpectedFixup ==
    << "FixMounts" >> \o (IF needProxy THEN << "SetProxy" >> ELSE << >>)
        \o << "SignalStart", "WaitForDocker", "LoadImages" >>

FatalSteps == { "FixMounts", "SetProxy", "SignalStart", "WaitForDocker" }

(***************************************************************************)
(* C1: run on a configuration that expands to no node spec,                *)
(* createNodeContainers launches no task and returns the empty node list   *)
(* and no error: it does not block.                                        *)
(***************************************************************************)
C1_EmptyRunReturns ==
    (N = 0) => <>(/\ Returned
                  /\ ret = [ nodes |-> Some(<< >>), err |-> Nil ]
                  /\ launched = 0)

(***************************************************************************)
(* C2: every launched task eventually completes the delivery of its one    *)
(* outcome and terminates, also when the orchestrator returns on the       *)
(* first error while other tasks are still running.                        *)
(***************************************************************************)
C2_EveryTaskDelivers ==
    \A t \in 1..MaxNodes :
        []((t \in Tasks /\ pc[t] # "idle") => <>(t \in Tasks /\ pc[t] = "done"))

(***************************************************************************)
(* C3: the values of the return are all or nothing: a list of exactly N    *)
(* nodes and no error, or no node list and one error.                      *)
(***************************************************************************)
C3_AllOrNothing ==
    ReturnExecuted =>
        \/ /\ ret.err = Nil
           /\ ret.nodes # Nil
           /\ Len(ret.nodes[1]) = N
        \/ /\ ret.err # Nil
           /\ ret.nodes = Nil

C3_Witness ==
    /\ Returned
    /\ N = 2
    /\ ret.err = Nil
    /\ Len(ret.nodes[1]) = 2

(***************************************************************************)
(* C4: with N >= 2 tasks of which exactly one, t, fails and the others     *)
(* succeed, under fair scheduling the run returns t's error and no node    *)
(* list: every fair behaviour comes to a state where each task t has       *)
(* succeeded, or another task than t has failed, or the run has returned   *)
(* t's error; and a node list is never returned once a task has failed.    *)
(* (C4_Witness: the return happens while another task is still creating    *)
(* or fixing up its node.)                                                 *)
(***************************************************************************)
C4_SingleFailureReturned ==
    /\ <>(\/ N < 2
          \/ \A t \in Tasks :
                \/ Succeeded(t)
                \/ \E u \in Tasks \ { t } : Failed(u)
                \/ /\ Returned
                   /\ Failed(t)
                   /\ ret = [ nodes |-> Nil, err |-> err[t] ]
                   /\ ret.err[1].origin = t)
    /\ []((\E t \in Tasks : Failed(t)) => ret.nodes = Nil)

C4_Witness ==
    /\ Returned
    /\ N >= 2
    /\ \E t \in Tasks :
         /\ OnlyFailing(t)
         /\ ret = [ nodes |-> Nil, err |-> err[t] ]
         /\ \E u \in Tasks : pc[u] \in { "Create", "FixMounts", "SignalStart",
                                         "WaitForDocker", "LoadImages" }

(***************************************************************************)
(* C5: with N >= 1 tasks that all succeed, under fair scheduling the run   *)
(* returns no error and a list of exactly N nodes in which the node of     *)
(* every spec occurs exactly once: every fair behaviour has a failing      *)
(* task or comes to that return.                                           *)
(***************************************************************************)
C5_AllSucceedReturned ==
    (N >= 1) =>
        <>(\/ \E t \in Tasks : Failed(t)
           \/ /\ Returned
              /\ ret.err = Nil
              /\ ret.nodes # Nil
              /\ Len(ret.nodes[1]) = N
              /\ \A t \in Tasks :
                   Cardinality({ i \in 1..Len(ret.nodes[1]) :
                                   ret.nodes[1][i] = [ name |-> desiredNodes[t].Name,
                                                       spec |-> t ] }) = 1)

C5_Witness ==
    /\ Returned
    /\ N = 2
    /\ \A t \in Tasks : Succeeded(t) /\ pc[t] = "done"
    /\ ret.nodes # Nil
    /\ { ret.nodes[1][i].spec : i \in 1..Len(ret.nodes[1]) } = Tasks

(***************************************************************************)
(* C6: Create dispatches each of the four known roles to a creation        *)
(* operation; none of them yields the unknown-role error.                  *)
(***************************************************************************)
C6_KnownRolesDispatch ==
    \A t \in Tasks :
        (desiredNodes[t].Role \in Range(defaultRoleOrder) /\ pc[t] \notin { "idle", "Create" })
            => /\ steps[t] # << >>
               /\ steps[t][1].op \in CreateOps
               /\ ~(err[t] # Nil /\ err[t][1].msg = UnknownRoleMsg)

(***************************************************************************)
(* C7 as stated: a task whose role is not recognized invokes no creation   *)
(* and no fixup operation, and the run returns its invalid-role error.     *)
(***************************************************************************)
C7_UnknownRoleErrorReturned ==
    \A t \in Tasks :
        Unrecognized(t) =>
            /\ steps[t] = << >>
            /\ Returned => ret = [ nodes |-> Nil,
                                   err |-> Some(UnknownRoleError(desiredNodes[t], t)) ]

(***************************************************************************)
(* C7 as amended: a task whose role is not recognized invokes no creation  *)
(* and no fixup operation and the only outcome it ever offers is its       *)
(* invalid-role error; the run never returns a node list; the error the    *)
(* run returns is this task's invalid-role error whenever it is this       *)
(* task's error that the orchestrator receives, which is so when no other  *)
(* task fails.                                                             *)
(***************************************************************************)
C7_UnknownRoleNoCreation ==
    \A t \in Tasks :
        Unrecognized(t) =>
            /\ steps[t] = << >>
            /\ node[t] = Nil
            /\ pc[t] \in { "idle", "Create", "sendErr", "done", "panic" }
            /\ pc[t] \in { "sendErr", "done", "panic" }
                  => err[t] = Some(UnknownRoleError(desiredNodes[t], t))
            /\ ReturnExecuted =>
                  /\ ret.nodes = Nil
                  /\ ret.err # Nil
                  /\ ret.err[1].origin = t
                        => ret.err[1] = UnknownRoleError(desiredNodes[t], t)
                  /\ (\A u \in Tasks \ { t } : ~Failed(u)) => ret.err[1].origin = t

C7_Witness ==
    /\ Returned
    /\ N = 2
    /\ \E t \in Tasks :
         /\ desiredNodes[t].Role = EdgeRole
         /\ pc[t] = "done"
         /\ steps[t] = << >>
         /\ ret = [ nodes |-> Nil, err |-> Some(UnknownRoleError(desiredNodes[t], t)) ]

(***************************************************************************)
(* C8: fixupNode invokes FixMounts, SetProxy (only when NeedProxy()),      *)
(* SignalStart, WaitForDocker, LoadImages in this order; a step is         *)
(* invoked only after every step before it succeeded, and after a failed   *)
(* FixMounts, SetProxy, SignalStart or WaitForDocker no step follows and   *)
(* fixupNode returns an error.                                             *)
(***************************************************************************)
C8_FixupOrder ==
    \A t \in Tasks :
        LET log == FixupLog(t)
        IN  /\ Len(log) <= Len(ExpectedFixup)
            /\ \A i \in DOMAIN log : log[i].op = ExpectedFixup[i]
            /\ \A i \in DOMAIN log : i < Len(log) => log[i].ok
            /\ log # << >> => steps[t][1].ok /\ steps[t][1].op \in CreateOps
            /\ (log # << >> /\ ~log[Len(log)].ok /\ log[Len(log)].op \in FatalSteps)
                  => /\ pc[t] \in { "sendErr", "done", "panic" }
                     /\ err[t] # Nil

C8_Witness ==
    \E t \in Tasks :
        /\ needProxy
        /\ [ i \in DOMAIN FixupLog(t) |-> FixupLog(t)[i].op ]
              = << "FixMounts", "SetProxy", "SignalStart", "WaitForDocker", "LoadImages" >>
        /\ \E u \in Tasks :
             /\ FixupLog(u) # << >>
             /\ FixupLog(u)[Len(FixupLog(u))] = [ op |-> "SignalStart", ok |-> FALSE ]
             /\ pc[u] = "done"

(***************************************************************************)
(* C9: a failure of LoadImages is not propagated: once LoadImages has      *)
(* run, failed or not, fixupNode has returned no error and the task's      *)
(* outcome is its node, which it sends on nodeChan.                        *)
(***************************************************************************)
C9_LoadImagesNotPropagated ==
    \A t \in Tasks :
        (\E i \in DOMAIN steps[t] : steps[t][i].op = "LoadImages")
            => /\ err[t] = Nil
               /\ node[t] # Nil
               /\ pc[t] \in { "sendNode", "done", "panic" }
               /\ pc[t] = "done"
                     => \/ \E i \in DOMAIN nodeChan : nodeChan[i] = node[t][1]
                        \/ \E i \in DOMAIN allNodes : allNodes[i] = node[t][1]

C9_Witness ==
    /\ Returned
    /\ ret.err = Nil
    /\ \E t \in Tasks :
         /\ steps[t][Len(steps[t])] = [ op |-> "LoadImages", ok |-> FALSE ]
         /\ pc[t] = "done"
         /\ \E i \in DOMAIN ret.nodes[1] : ret.nodes[1][i] = node[t][1]

Count(i) == IF cfgNodes[i].Replicas = Nil THEN 1 ELSE cfgNodes[i].Replicas[1]

\* the sum of the replica counts of the first i entries
RECURSIVE CountUpTo(_)
CountUpTo(i) == IF i = 0 THEN 0 ELSE CountUpTo(i - 1) + Count(i)

\* convertReplicas has returned
Expanded == npc # "convertReplicas"

SharedMounts(a, b) ==
    a.ExtraMounts # Nil /\ b.ExtraMounts # Nil /\ a.ExtraMounts[1].at = b.ExtraMounts[1].at

\* C11: with replica counts r_1..r_k >= 0 (unset counting as 1) convertReplicas
\* returns r_1 + ... + r_k entries; the r_i copies of entry i are contiguous and
\* the groups are in input order (an entry with r_i = 0 has no copy); every
\* output entry has Replicas cleared, the role and the mounts of its entry, and
\* shares its extra-mount list with no other output entry and with no entry
\* of the input.
C11_ExpansionShape ==
    (Expanded /\ \A i \in DOMAIN cfgNodes : Count(i) >= 0) =>
        /\ Len(expanded) = CountUpTo(Len(cfgNodes))
        /\ \A i \in DOMAIN cfgNodes :
             \A j \in (CountUpTo(i - 1) + 1)..CountUpTo(i) :
                /\ expanded[j].Role = cfgNodes[i].Role
                /\ expanded[j].Replicas = Nil
                /\ expanded[j].ExtraMounts # Nil
                /\ expanded[j].ExtraMounts[1].mounts = cfgNodes[i].ExtraMounts[1].mounts
                /\ ~SharedMounts(expanded[j], cfgNodes[i])
        /\ \A j, k \in DOMAIN expanded : j # k => ~SharedMounts(expanded[j], expanded[k])

\* an entry with count 0 next to an entry with two copies
C11_Witness ==
    /\ Expanded
    /\ Len(cfgNodes) >= 2
    /\ \A i \in DOMAIN cfgNodes : Count(i) >= 0
    /\ \E i \in DOMAIN cfgNodes : Count(i) = 0
    /\ \E i \in DOMAIN cfgNodes : cfgNodes[i].Replicas = Some(2)
    /\ Len(expanded) = 2
    /\ expanded[1].ExtraMounts[1].mounts = expanded[2].ExtraMounts[1].mounts

\* C12: replica expansion fails, with a configuration error, exactly when some
\* entry has a negative replica count: a configuration with a negative count
\* never gets an expansion result (the count is not taken for zero), and one
\* without gets its result.
C12_NegativeCountRejected ==
    IF \E i \in DOMAIN cfgNodes : Count(i) < 0
    THEN ~Expanded
    ELSE Expanded \/ ENABLED ConvertReplicas

\* sortNodes has returned
Sorted == npc \in { "nameNode", "returned" }

\* the order of the node's role in the role order of the run
Rank(n) == makeRoleToOrder(roleOrder, n.Role)

\* the number of entries of nodes that are equal to n
Occurrences(nodes, n) == Cardinality({ i \in DOMAIN nodes : nodes[i] = n })

\* the place of n in nodes
PlaceIn(nodes, n) == CHOOSE i \in DOMAIN nodes : nodes[i] = n

\* C13: sortNodes is a stable sort by role rank: configNodes after the call is a
\* permutation of configNodes before it (expanded), the ranks do not decrease
\* along it, and two entries of the same role are in the order they had before.
C13_StableSort ==
    Sorted =>
        /\ Len(configNodes) = Len(expanded)
        /\ \A i \in DOMAIN expanded :
             Occurrences(configNodes, expanded[i]) = Occurrences(expanded, expanded[i])
        /\ \A i, j \in DOMAIN configNodes :
             i < j => Rank(configNodes[i]) <= Rank(configNodes[j])
        /\ \A i, j \in DOMAIN expanded :
             (i < j /\ expanded[i].Role = expanded[j].Role)
                => PlaceIn(configNodes, expanded[i]) < PlaceIn(configNodes, expanded[j])

\* two copies of one entry moved behind a later entry, still in their order
C13_Witness ==
    /\ Sorted
    /\ Len(expanded) = 3
    /\ expanded[1].Role = expanded[2].Role
    /\ configNodes = << expanded[3], expanded[1], expanded[2] >>
    /\ expanded[1] # expanded[2]

\* the role is in the role order of the run
Present(role) == \E i \in DOMAIN roleOrder : roleOrder[i] = role

\* C14: whatever the role order, the rank of a role that is not in it is greater
\* than the rank of every role that is, so after sortNodes every entry with an
\* absent role is behind every entry with a present one.
C14_AbsentRolesLast ==
    Sorted =>
        \A i, j \in DOMAIN configNodes :
            (~Present(configNodes[i].Role) /\ Present(configNodes[j].Role))
                => /\ Rank(configNodes[i]) > Rank(configNodes[j])
                   /\ i > j

\* the number of calls of the namer for the role of specs[i], up to the one for specs[i]
CallsForRole(i) == Cardinality({ j \in 1..i : specs[j].Role = specs[i].Role })

\* C15: the k-th call of a fresh namer for a role returns <clusterName>-<role>
\* when k = 1 and <clusterName>-<role><k> when k >= 2, whatever calls were made
\* for other roles; the counter holds the number of calls for each role.
C15_NamerSequence ==
    /\ \A i \in DOMAIN specs :
         specs[i].Name =
            IF CallsForRole(i) = 1
            THEN clusterName \o "-" \o specs[i].Role
            ELSE clusterName \o "-" \o specs[i].Role \o ToString(CallsForRole(i))
    /\ \A role \in DOMAIN counter :
         counter[role] = Cardinality({ j \in DOMAIN specs : specs[j].Role = role })

\* three calls for worker
C15_Witness ==
    /\ Len(specs) = 3
    /\ specs[1].Name = "kind-worker"
    /\ specs[2].Name = "kind-worker2"
    /\ specs[3].Name = "kind-worker3"

\* C16: whatever the roles and the replica counts of the configuration, the names
\* of the node specs that one call of nodesToCreate builds are pairwise distinct.
C16_NamesDistinct ==
    roleOrder = defaultRoleOrder =>
        \A i, j \in DOMAIN specs : i # j => specs[i].Name # specs[j].Name

\* nodesToCreate has returned
SpecsReturned == npc = "returned"

\* the specs a call of nodesToCreate builds for cfg with the role order of the run
SecondRun(cfg) == NameAll(sortNodes(convertReplicas(cfg), roleOrder), clusterName).specs

\* name and role of each spec
NamesAndRoles(list) == [ i \in DOMAIN list |-> << list[i].Name, list[i].Role >> ]

\* C20: naming commutes with sorting: the name nodesToCreate gives to an expanded
\* entry (named after sortNodes) is the name a fresh namer gives it when the
\* expanded entries are named in configuration order, before sorting; a second
\* call on the same configuration builds the same names and roles in the same
\* order, and no step changes cfg.Nodes.
C20_NamingCommutesWithSorting ==
    /\ [](SpecsReturned =>
            /\ \A i \in DOMAIN specs :
                 specs[i].Name =
                    NameAll(expanded, clusterName).specs[PlaceIn(expanded, configNodes[i])].Name
            /\ NamesAndRoles(SecondRun(cfgNodes)) = NamesAndRoles(specs))
    /\ [][cfgNodes' = cfgNodes]_allvars

\* the second worker, named kind-worker2, was second before the sort and is third after it
C20_Witness ==
    /\ SpecsReturned
    /\ roleOrder = defaultRoleOrder
    /\ Len(specs) = 3
    /\ expanded[2].Role = WorkerNodeRoleValue
    /\ configNodes[3] = expanded[2]
    /\ specs[3].Name = "kind-worker2"

\* C19: no task sends, or waits to send, on nodeChan or errChan once the deferred
\* close has closed that channel: the panic of a send on a closed channel is
\* not reachable.
C19_NoSendOnClosedChannel ==
    \A t \in Tasks :
        /\ pc[t] # "panic"
        /\ ~(pc[t] = "sendErr" /\ errChanClosed)
        /\ ~(pc[t] = "sendNode" /\ nodeChanClosed)

\* the nodes delivered on nodeChan so far, in the order of their delivery
Arrivals == allNodes \o nodeChan

\* task t completes its send on nodeChan in this step
Delivers(t) == pc[t] = "sendNode" /\ pc'[t] = "done"

\* C18: on success the returned list is in arrival order: every delivery on
\* nodeChan puts the task's node behind the nodes delivered before it, nothing
\* else changes the order, and the list returned with a nil error is the list
\* of arrivals.  The order can differ from the order of the specs, and a worker
\* can be delivered before a control-plane node (C18_Witness).
C18_ArrivalOrder ==
    /\ [][/\ \A t \in Tasks : Delivers(t) => Arrivals' = Append(Arrivals, node[t][1])
          /\ (\A t \in Tasks : ~Delivers(t)) => Arrivals' = Arrivals]_allvars
    /\ []((ReturnExecuted /\ ret.err = Nil) => ret.nodes = Some(Arrivals))

C18_Witness ==
    /\ Returned
    /\ ret.err = Nil
    /\ N = 2
    /\ desiredNodes[1].Role = ControlPlaneNodeRoleValue
    /\ desiredNodes[2].Role = WorkerNodeRoleValue
    /\ ret.nodes[1][1] = node[2][1]
    /\ ret.nodes[1][2] = node[1][1]

\* task t is between the start of its creation call and the end of its fixup
Running(t) ==
    pc[t] \in { "Create", "FixMounts", "SetProxy", "SignalStart", "WaitForDocker", "LoadImages" }

\* C17: there is no cancellation: after a task has failed and createNodeContainers
\* has returned the error, every task that is still in its creation or fixup
\* goes on with its next step; none is stopped because the run has failed.
C17_NoCancellation ==
    \A t \in Tasks :
        (Returned /\ ret.err # Nil /\ Running(t)) => ENABLED Task(t)
====
